---- MODULE Spec2Model ----
(***************************************************************************)
(* A model of elearning_diagnostic.py: the ELearningDiagnostic run.        *)
(*                                                                         *)
(* Text is modelled as a sequence of tokens; Python's `needle in text` is  *)
(* Contains (a contiguous run of tokens).  Every substring the code tests  *)
(* for is a token of its own in every text the model builds, so the token  *)
(* test and the character test agree on the modelled texts.                *)
(*                                                                         *)
(* A check is the sequence of effects its code performs on the inspected   *)
(* environment `env` (log_issue calls, writes of facts into the report,    *)
(* sys.path and connection changes, uncaught raises).  The check's action  *)
(* loads that sequence into `pending`; one step action per kind of effect  *)
(* performs the head of `pending`.  A KeyboardInterrupt may arrive between *)
(* any two effects.  Finding timestamps (wall-clock values no operation    *)
(* reads) and per-check progress lines on the console are not modelled.    *)
(***************************************************************************)
EXTENDS Integers, Sequences, FiniteSets, TLC

VARIABLES
    env,        \* the inspected project and process environment (read only)
    report,     \* self.report
    sys_path,   \* sys.path of the process
    conns,      \* database files with an open sqlite3 connection
    console,    \* what the report assembler and the orchestrator printed
    saved,      \* content of <base_path>/diagnostic_report.json
    status,     \* "running", "returned" or "propagated" (exception left the run)
    returned,   \* value returned by run_full_diagnostic
    phase,      \* index in Order of the check entered last
    pending,    \* effects of the current check still to perform
    recorded,   \* every Finding passed to log_issue, in call order
    failure     \* kind of the failure that ended the run, or "none"

vars == <<env, report, sys_path, conns, console, saved, status, returned,
          phase, pending, recorded, failure>>

(***************************************************************************)
(* Bounds of the model.                                                    *)
(***************************************************************************)
MaxRoutes == 1
MaxReqLines == 2
MaxDbFiles == 2
MaxTemplates == 2
MaxIssues == 3

(***************************************************************************)
(* Text.                                                                   *)
(***************************************************************************)
Contains(needle, text) ==
    \E i \in 0..(Len(text) - Len(needle)) :
        SubSeq(text, i + 1, i + Len(needle)) = needle

\* str.lower() on a token
LowerTok(t) ==
    CASE t = "Flask" -> "flask"
      [] t = "-Login" -> "-login"
      [] t = "SQLite" -> "sqlite"
      [] OTHER -> t

Lower(text) == [i \in 1..Len(text) |-> LowerTok(text[i])]

\* sep.join(parts), each part a text
RECURSIVE Join(_, _)
Join(parts, sep) ==
    IF parts = <<>> THEN <<>>
    ELSE IF Len(parts) = 1 THEN parts[1]
    ELSE parts[1] \o <<sep>> \o Join(Tail(parts), sep)

RECURSIVE Flatten(_)
Flatten(seqs) ==
    IF seqs = <<>> THEN <<>> ELSE Head(seqs) \o Flatten(Tail(seqs))

\* content.count(tok)
RECURSIVE Count(_, _)
Count(tok, text) ==
    IF text = <<>> THEN 0
    ELSE (IF Head(text) = tok THEN 1 ELSE 0) + Count(tok, Tail(text))

Range(s) == {s[i] : i \in 1..Len(s)}

BasePath == "/srv/portal"
PathText(name) == <<BasePath, "/", name>>

(***************************************************************************)
(* The report and the finding store.                                       *)
(***************************************************************************)
EmptyMap == <<>>

SetKey(m, k, v) == [x \in (DOMAIN m) \cup {k} |-> IF x = k THEN v ELSE m[x]]

InitReport ==
    [ base_path |-> BasePath,
      issues |-> <<>>,
      warnings |-> <<>>,
      info |-> <<>>,
      file_structure |-> EmptyMap,
      configurations |-> EmptyMap,
      database_status |-> EmptyMap,
      dependencies |-> EmptyMap,
      server_status |-> EmptyMap ]

Finding(category, message, severity) ==
    [category |-> category, message |-> message, severity |-> severity]

LogIssue_AlsoIssues(rep, category, message, severity) ==
    LET entry == Finding(category, message, severity) IN
    IF severity = "error" THEN [rep EXCEPT !.issues = Append(@, entry)]
    ELSE IF severity = "warning"
        THEN [rep EXCEPT !.warnings = Append(@, entry), !.issues = Append(@, entry)]
    ELSE [rep EXCEPT !.info = Append(@, entry)]

LogIssue(rep, category, message, severity) ==
    LET entry == Finding(category, message, severity) IN
    IF severity = "error" THEN [rep EXCEPT !.issues = Append(@, entry)]
    ELSE IF severity = "warning" THEN [rep EXCEPT !.warnings = Append(@, entry)]
    ELSE [rep EXCEPT !.info = Append(@, entry)]

(***************************************************************************)
(* Effects.                                                                *)
(***************************************************************************)
Log(category, message, severity) ==
    [op |-> "log", category |-> category, message |-> message, severity |-> severity]
Set(field, key, value) == [op |-> "set", field |-> field, key |-> key, value |-> value]
Raise(kind) == [op |-> "raise", kind |-> kind]
When(cond, effects) == IF cond THEN effects ELSE <<>>

\* str(e) of the exceptions the environment produces
ErrDenied == <<"[Errno 13] Permission denied">>
ErrNoFile == <<"[Errno 2] No such file or directory">>

(***************************************************************************)
(* analyze_file_structure                                                  *)
(***************************************************************************)
ExpectedFiles ==
    << [path |-> "app.py", description |-> "Main application file", dir |-> FALSE],
       [path |-> "requirements.txt", description |-> "Python dependencies", dir |-> FALSE],
       [path |-> "wsgi.py", description |-> "WSGI configuration", dir |-> FALSE],
       [path |-> "templates/", description |-> "HTML templates directory", dir |-> TRUE],
       [path |-> "static/", description |-> "Static files directory", dir |-> TRUE],
       [path |-> "instance/", description |-> "Instance-specific files", dir |-> TRUE] >>

ExpectedPaths == {ExpectedFiles[i].path : i \in 1..Len(ExpectedFiles)}

Exists(path) == env.exists[path]

MsgMissingExpected(f) == <<"Missing", " ", f.description, ": ", f.path>>

ExpectedFileSteps(f) ==
    IF Exists(f.path)
    THEN << Set("file_structure", f.path,
                [exists |-> TRUE, description |-> f.description,
                 size |-> IF f.dir THEN "directory" ELSE "bytes"]) >>
    ELSE << Log("file_structure", MsgMissingExpected(f), "warning"),
            Set("file_structure", f.path,
                [exists |-> FALSE, description |-> f.description]) >>

\* the files os.walk visits: the regular expected files present, then the
\* database files and the templates of the environment
WalkFiles ==
    SelectSeq(<<"app.py", "requirements.txt", "wsgi.py">>, Exists)
    \o [i \in 1..Len(env.dbs) |-> env.dbs[i].name]
    \o When(Exists("templates/"), [i \in 1..Len(env.templates) |-> env.templates[i].path])

analyze_file_structure_steps ==
    Flatten([i \in 1..Len(ExpectedFiles) |-> ExpectedFileSteps(ExpectedFiles[i])])
    \o When(env.fault = "walk", <<Raise("exception")>>)
    \o [i \in 1..Len(WalkFiles) |->
            Set("file_structure", WalkFiles[i],
                [exists |-> TRUE, size |-> "bytes", type |-> "file"])]

(***************************************************************************)
(* analyze_app_py and analyze_app_imports                                  *)
(***************************************************************************)
MsgAppNotFound == <<"app.py", " not found - this is critical!">>
MsgNoFlaskImports == <<"Flask imports not found in ", "app.py">>
MsgDebugMode == <<"Debug mode is enabled - should be disabled in production">>
MsgNoSecretKey == <<"No ", "SECRET_KEY", " found - sessions won't work properly">>
MsgNoRoutes == <<"No routes found in ", "app.py">>
MsgImportedApp == <<"Successfully imported Flask app">>
MsgNoAppInstance == <<"No 'app' instance found in ", "app.py">>
MsgImportError(e) == <<"Import error in ", "app.py", ": ">> \o e
MsgExecError(e) == <<"Error executing ", "app.py", ": ">> \o e
MsgImportsNotAnalyzed(e) == <<"Could not analyze app imports: ">> \o e
MsgReadError(name, e) == <<"Error reading ", name, ": ">> \o e

PathInsert == [op |-> "path_insert"]

\* the try block of analyze_app_imports, by what loading app.py does;
\* spec_from_file_location gives a spec with a loader for any ".py" location,
\* so the test of line 145 holds
analyze_app_imports_steps ==
    <<PathInsert>> \o
    CASE env.load = "app" ->
            << Set("configurations", "flask_config", env.flask_config),
               Log("app_config", MsgImportedApp, "info") >>
      [] env.load = "bad_app" ->
            \* the module has an attribute named app, but reading its config,
            \* url_map or blueprints raises: the handler of line 168 records it
            << Log("app_config", MsgExecError(env.load_error), "error") >>
      [] env.load = "no_app" ->
            << Log("app_config", MsgNoAppInstance, "error") >>
      [] env.load = "import_error" ->
            << Log("app_config", MsgImportError(env.load_error), "error") >>
      [] env.load = "exec_error" ->
            << Log("app_config", MsgExecError(env.load_error), "error") >>
      [] env.load = "outer_error" ->
            << Log("app_config", MsgImportsNotAnalyzed(env.load_error), "warning") >>
      [] env.load = "system_exit" ->
            << Raise("system_exit") >>

ConfigInfo(content) ==
    [ flask_imports |-> Contains(<<"from flask import">>, content),
      database_config |->
          \E db \in {"sqlite", "mysql", "postgresql"} : Contains(<<db>>, Lower(content)),
      secret_key |-> Contains(<<"SECRET_KEY">>, content) \/ Contains(<<"secret_key">>, content),
      debug_mode |-> Contains(<<"debug=True">>, content),
      port_config |-> Contains(<<"port=">>, content),
      routes_count |-> Count("@app.route", content),
      blueprint_usage |-> Contains(<<"Blueprint">>, content),
      error_handling |-> Contains(<<"@app.errorhandler">>, content) ]

\* the try block of analyze_app_py (lines 98-133)
app_py_try_steps ==
    IF ~env.app_readable
    THEN << Log("app_config", MsgReadError("app.py", ErrDenied), "error") >>
    ELSE LET config_info == ConfigInfo(env.app_content) IN
         << Set("configurations", "app_py", config_info) >>
         \o When(~config_info.flask_imports, <<Log("app_config", MsgNoFlaskImports, "error")>>)
         \o When(config_info.debug_mode, <<Log("app_config", MsgDebugMode, "warning")>>)
         \o When(~config_info.secret_key, <<Log("app_config", MsgNoSecretKey, "error")>>)
         \o When(config_info.routes_count = 0, <<Log("app_config", MsgNoRoutes, "warning")>>)
         \o analyze_app_imports_steps

analyze_app_py_steps_NoReturn ==
    When(~Exists("app.py"), <<Log("app_config", MsgAppNotFound, "error")>>)
    \o app_py_try_steps

analyze_app_py_steps ==
    IF ~Exists("app.py")
    THEN << Log("app_config", MsgAppNotFound, "error") >>
    ELSE app_py_try_steps

(***************************************************************************)
(* analyze_requirements                                                    *)
(***************************************************************************)
MsgNoRequirements == <<"requirements.txt", " not found">>
MsgMissingPackages(names) == <<"Missing", " packages", ": ">> \o Join(names, ", ")
MsgAllInstalled == <<"All required packages appear to be installed">>
MsgPipFailed(e) == <<"Could not check installed packages: ">> \o e

IsSpace(t) == t \in {" ", "\t"}

\* str.strip()
RECURSIVE LStrip(_)
LStrip(text) ==
    IF text # <<>> /\ IsSpace(Head(text)) THEN LStrip(Tail(text)) ELSE text

RECURSIVE RStrip(_)
RStrip(text) ==
    IF text # <<>> /\ IsSpace(text[Len(text)])
    THEN RStrip(SubSeq(text, 1, Len(text) - 1)) ELSE text

Strip(text) == LStrip(RStrip(text))

\* text.split(delim)[0]
RECURSIVE SplitFirst(_, _)
SplitFirst(text, delim) ==
    IF text = <<>> \/ Head(text) = delim THEN <<>>
    ELSE <<Head(text)>> \o SplitFirst(Tail(text), delim)

PackageName(req) == Strip(SplitFirst(SplitFirst(SplitFirst(req, "=="), ">="), "<="))

IsRequirement(req) == Strip(req) # <<>> /\ ~(req # <<>> /\ Head(req) = "#")

RECURSIVE MissingPackages(_, _)
MissingPackages(requirements, installed_packages) ==
    IF requirements = <<>> THEN <<>>
    ELSE LET req == Head(requirements)
             rest == MissingPackages(Tail(requirements), installed_packages)
         IN IF IsRequirement(req)
                /\ ~Contains(Lower(PackageName(req)), Lower(installed_packages))
            THEN <<PackageName(req)>> \o rest
            ELSE rest

\* the inner try block (lines 190-209): subprocess.run raises only when the
\* interpreter cannot be started; a pip that exits non-zero returns its stdout
pip_check_steps ==
    IF env.pip = "cannot_start"
    THEN << Log("dependencies", MsgPipFailed(ErrNoFile), "warning") >>
    ELSE LET missing_packages == MissingPackages(env.req_lines, env.pip_stdout) IN
         << Set("dependencies", "missing_packages", missing_packages),
            IF missing_packages # <<>>
            THEN Log("dependencies", MsgMissingPackages(missing_packages), "error")
            ELSE Log("dependencies", MsgAllInstalled, "info") >>

analyze_requirements_steps ==
    IF ~Exists("requirements.txt")
    THEN << Log("dependencies", MsgNoRequirements, "warning") >>
    ELSE IF ~env.req_readable
    THEN << Log("dependencies", MsgReadError("requirements.txt", ErrDenied), "error") >>
    ELSE << Set("dependencies", "requirements_file", env.req_lines) >>
         \o pip_check_steps

(***************************************************************************)
(* analyze_database                                                        *)
(***************************************************************************)
MsgDbConnected(name) == <<"Successfully connected to ", name>>
MsgDbError(name, e) == <<"Could not access database ", name, ": ">> \o e

Connect(db) == [op |-> "connect", db |-> db]
Close(db) == [op |-> "close", db |-> db]

DbErrorText(outcome) ==
    CASE outcome = "connect_fail" -> <<"unable to open database file">>
      [] outcome = "list_fail" -> <<"file is not a database">>
      [] outcome = "count_fail" -> <<"near \"order\": syntax error">>

DbAccessible(db) ==
    [type |-> "SQLite", accessible |-> TRUE, tables |-> db.tables]
DbInaccessible(db) ==
    [type |-> "SQLite", accessible |-> FALSE, error |-> DbErrorText(db.outcome)]

\* one iteration of the loop over rglob('*.db'), lines 220-249
DbFileSteps(db) ==
    IF db.outcome = "ok"
    THEN << Connect(db.path),
            Set("database_status", db.path, DbAccessible(db)),
            Close(db.path),
            Log("database", MsgDbConnected(db.name), "info") >>
    ELSE When(db.outcome # "connect_fail", <<Connect(db.path)>>)
         \o << Set("database_status", db.path, DbInaccessible(db)),
               Log("database", MsgDbError(db.name, DbErrorText(db.outcome)), "error") >>

\* a loop that ends at the first file that fails
RECURSIVE DbStepsUntilFailure(_)
DbStepsUntilFailure(dbs) ==
    IF dbs = <<>> THEN <<>>
    ELSE DbFileSteps(Head(dbs))
         \o When(Head(dbs).outcome = "ok", DbStepsUntilFailure(Tail(dbs)))

analyze_database_steps_StopAtFailure ==
    When(env.fault = "db_scan", <<Raise("exception")>>)
    \o DbStepsUntilFailure(env.dbs)

analyze_database_steps ==
    When(env.fault = "db_scan", <<Raise("exception")>>)
    \o Flatten([i \in 1..Len(env.dbs) |-> DbFileSteps(env.dbs[i])])

(***************************************************************************)
(* analyze_templates                                                       *)
(***************************************************************************)
MsgNoTemplatesDir == <<"Templates directory not found">>
MsgNoTemplates == <<"No HTML template files found">>
MsgFoundTemplates(n) == <<"Found ", ToString(n), " template files">>
MsgNotATemplate(name) == <<name, " might not be a Flask template">>
MsgTemplateReadError(name, e) == <<"Error reading template ", name, ": ">> \o e

ErrDecode == <<"'utf-8' codec can't decode byte 0xff in position 0">>

LacksMarkers_Either(content) ==
    ~Contains(<<"{{">>, content) \/ ~Contains(<<"{%">>, content)

\* line 279
LacksMarkers(content) ==
    ~Contains(<<"{{">>, content) /\ ~Contains(<<"{%">>, content)

\* one iteration of the loop over template_files, lines 274-283
TemplateFileSteps(t) ==
    IF ~t.readable
    THEN << Log("templates", MsgTemplateReadError(t.name, ErrDecode), "warning") >>
    ELSE When(LacksMarkers(t.content),
              << Log("templates", MsgNotATemplate(t.name), "warning") >>)

analyze_templates_steps ==
    IF ~Exists("templates/")
    THEN << Log("templates", MsgNoTemplatesDir, "error") >>
    ELSE LET template_files == env.templates IN
         When(env.fault = "template_scan", <<Raise("exception")>>)
         \o << Set("configurations", "templates",
                   [directory_exists |-> TRUE,
                    template_count |-> Len(template_files),
                    template_files |->
                        [i \in 1..Len(template_files) |-> template_files[i].path]]),
               IF Len(template_files) = 0
               THEN Log("templates", MsgNoTemplates, "warning")
               ELSE Log("templates", MsgFoundTemplates(Len(template_files)), "info") >>
         \o Flatten([i \in 1..Len(template_files) |-> TemplateFileSteps(template_files[i])])

(***************************************************************************)
(* analyze_static_files                                                    *)
(***************************************************************************)
MsgNoStaticDir == <<"Static directory not found">>
MsgStaticFiles(c, j, i) ==
    <<"Static files: ", ToString(c), " CSS, ", ToString(j), " JS, ", ToString(i), " images">>

analyze_static_files_steps ==
    IF ~Exists("static/")
    THEN << Log("static", MsgNoStaticDir, "warning") >>
    ELSE LET css_files == env.static.css
             js_files == env.static.js
             img_files == env.static.img
         IN When(env.fault = "static_scan", <<Raise("exception")>>)
            \o << Set("configurations", "static_files",
                      [directory_exists |-> TRUE,
                       css_count |-> Len(css_files),
                       js_count |-> Len(js_files),
                       image_count |-> Len(img_files),
                       css_files |-> css_files,
                       js_files |-> js_files,
                       image_files |-> img_files]),
                  Log("static",
                      MsgStaticFiles(Len(css_files), Len(js_files), Len(img_files)),
                      "info") >>

(***************************************************************************)
(* check_server_configuration                                              *)
(***************************************************************************)
MsgWsgiNoImport == <<"WSGI file doesn't properly import the app">>
MsgNoWsgi == <<"wsgi.py", " not found - needed for production deployment">>
MsgCloudflare == <<"Cloudflare tunnel configuration detected">>
MsgRaspberryPi == <<"Running on Raspberry Pi detected">>

WsgiInfo(wsgi_content) ==
    [ exists |-> TRUE,
      imports_app |-> Contains(<<"from app ", "import app">>, wsgi_content)
                      \/ Contains(<<"import app">>, wsgi_content),
      has_application |-> Contains(<<"application = app">>, wsgi_content) ]

\* the log_issue of line 344 runs inside the bare `except:` block, which also
\* swallows a KeyboardInterrupt
Guarded(effect) == [effect EXCEPT !.op = "guarded_log"]

check_server_configuration_steps ==
    (IF Exists("wsgi.py")
     THEN IF env.wsgi_readable
          THEN << Set("configurations", "wsgi", WsgiInfo(env.wsgi_content)) >>
               \o When(~WsgiInfo(env.wsgi_content).imports_app,
                       <<Log("server", MsgWsgiNoImport, "error")>>)
          ELSE << Log("server", MsgReadError("wsgi.py", ErrDenied), "warning") >>
     ELSE << Log("server", MsgNoWsgi, "warning") >>)
    \o When(env.cloudflared, <<Log("server", MsgCloudflare, "info")>>)
    \o When(env.cpuinfo = "raspberry", <<Guarded(Log("server", MsgRaspberryPi, "info"))>>)

(***************************************************************************)
(* check_permissions                                                       *)
(***************************************************************************)
MsgNotReadable(name) == <<"File/directory not readable: ">> \o PathText(name)
MsgNotWritable(name) == <<"Directory not writable: ">> \o PathText(name)

ImportantPaths ==
    << [name |-> "app.py", expected |-> "app.py"],
       [name |-> "static", expected |-> "static/"],
       [name |-> "templates", expected |-> "templates/"],
       [name |-> "instance", expected |-> "instance/"] >>

PermissionSteps(p) ==
    When(Exists(p.expected),
         When(~env.mode[p.name].r,
              <<Log("permissions", MsgNotReadable(p.name), "error")>>)
         \o When(p.name \in {"instance", "static"} /\ ~env.mode[p.name].w,
                 <<Log("permissions", MsgNotWritable(p.name), "warning")>>))

check_permissions_steps ==
    When(env.fault = "perm_stat"
            /\ \E i \in 1..Len(ImportantPaths) : Exists(ImportantPaths[i].expected),
         <<Raise("exception")>>)
    \o Flatten([i \in 1..Len(ImportantPaths) |-> PermissionSteps(ImportantPaths[i])])

(***************************************************************************)
(* generate_solutions                                                      *)
(***************************************************************************)
CodeCreateApp == "from flask import Flask ... app.run(debug=True, host='0.0.0.0', port=5000)"
CodeSecretKey == "import os ... app.config['SECRET_KEY'] = os.environ.get('SECRET_KEY') or 'your-secret-key-here'"
CmdPipInstall == "pip install -r requirements.txt"
CmdMakeTemplates == "mkdir templates && touch templates/base.html templates/index.html"

SolutionCreateApp(message) ==
    [issue |-> message,
     solution |-> "Create app.py file with basic Flask application structure",
     code_example |-> CodeCreateApp]
SolutionSecretKey(message) ==
    [issue |-> message,
     solution |-> "Add SECRET_KEY to your Flask configuration",
     code_example |-> CodeSecretKey]
SolutionInstall(message) ==
    [issue |-> message,
     solution |-> "Install missing packages using pip",
     command |-> CmdPipInstall]
SolutionTemplates(message) ==
    [issue |-> message,
     solution |-> "Create templates directory and basic templates",
     command |-> CmdMakeTemplates]

\* the if / elif chain of lines 380-416 with the packages test first
SolutionsFor_PackagesFirst(message) ==
    IF Contains(<<"Missing", " packages">>, message)
    THEN << SolutionInstall(message) >>
    ELSE IF Contains(<<"Missing">>, message) /\ Contains(<<"app.py">>, message)
    THEN << SolutionCreateApp(message) >>
    ELSE IF Contains(<<"SECRET_KEY">>, message)
    THEN << SolutionSecretKey(message) >>
    ELSE IF Contains(<<"Templates directory not found">>, message)
    THEN << SolutionTemplates(message) >>
    ELSE << >>

\* the if / elif chain of lines 380-416: what one issue appends to solutions
SolutionsFor(message) ==
    IF Contains(<<"Missing">>, message) /\ Contains(<<"app.py">>, message)
    THEN << SolutionCreateApp(message) >>
    ELSE IF Contains(<<"SECRET_KEY">>, message)
    THEN << SolutionSecretKey(message) >>
    ELSE IF Contains(<<"Missing", " packages">>, message)
    THEN << SolutionInstall(message) >>
    ELSE IF Contains(<<"Templates directory not found">>, message)
    THEN << SolutionTemplates(message) >>
    ELSE << >>

RECURSIVE SolutionsOf(_)
SolutionsOf(findings) ==
    IF findings = <<>> THEN <<>>
    ELSE SolutionsFor(Head(findings).message) \o SolutionsOf(Tail(findings))

GenerateSolutions_AllFindings(rep) == SolutionsOf(rep.issues \o rep.warnings)

\* the loop of lines 373-416 over self.report['issues']
GenerateSolutions(rep) == SolutionsOf(rep.issues)

generate_solutions_steps == << [op |-> "solutions"] >>

(***************************************************************************)
(* generate_report                                                         *)
(***************************************************************************)
generate_report_steps ==
    << [op |-> "print_summary"], [op |-> "save"], [op |-> "return"] >>

(***************************************************************************)
(* run_full_diagnostic                                                     *)
(***************************************************************************)
Order ==
    << "analyze_file_structure", "analyze_app_py", "analyze_requirements",
       "analyze_database", "analyze_templates", "analyze_static_files",
       "check_server_configuration", "check_permissions",
       "generate_solutions", "generate_report" >>

Index(name) == CHOOSE i \in 1..Len(Order) : Order[i] = name

\* check number i has been entered and has performed all its effects
Completed(i) == phase > i \/ (phase = i /\ pending = <<>>)

Enter(name, steps) ==
    /\ status = "running"
    /\ pending = <<>>
    /\ phase < Len(Order)
    /\ Order[phase + 1] = name
    /\ phase' = phase + 1
    /\ pending' = steps
    /\ UNCHANGED <<env, report, sys_path, conns, console, saved, status,
                   returned, recorded, failure>>

analyze_file_structure == Enter("analyze_file_structure", analyze_file_structure_steps)
analyze_app_py == Enter("analyze_app_py", analyze_app_py_steps)
analyze_requirements == Enter("analyze_requirements", analyze_requirements_steps)
analyze_database == Enter("analyze_database", analyze_database_steps)
analyze_templates == Enter("analyze_templates", analyze_templates_steps)
analyze_static_files == Enter("analyze_static_files", analyze_static_files_steps)
check_server_configuration ==
    Enter("check_server_configuration", check_server_configuration_steps)
check_permissions == Enter("check_permissions", check_permissions_steps)
generate_solutions == Enter("generate_solutions", generate_solutions_steps)
generate_report == Enter("generate_report", generate_report_steps)

Perform(kind) ==
    /\ status = "running"
    /\ pending # <<>>
    /\ Head(pending).op = kind
    /\ pending' = Tail(pending)

log_issue ==
    /\ Perform("log")
    /\ LET e == Head(pending) IN
        /\ report' = LogIssue(report, e.category, e.message, e.severity)
        /\ recorded' = Append(recorded, Finding(e.category, e.message, e.severity))
    /\ UNCHANGED <<env, sys_path, conns, console, saved, status, returned, phase, failure>>

\* line 344: log_issue inside the try block with the bare except
log_issue_guarded ==
    /\ Perform("guarded_log")
    /\ LET e == Head(pending) IN
        /\ report' = LogIssue(report, e.category, e.message, e.severity)
        /\ recorded' = Append(recorded, Finding(e.category, e.message, e.severity))
    /\ UNCHANGED <<env, sys_path, conns, console, saved, status, returned, phase, failure>>

write_fact ==
    /\ Perform("set")
    /\ LET e == Head(pending) IN
        report' = [report EXCEPT ![e.field] = SetKey(@, e.key, e.value)]
    /\ UNCHANGED <<env, sys_path, conns, console, saved, status, returned, phase,
                   recorded, failure>>

sys_path_insert ==
    /\ Perform("path_insert")
    /\ sys_path' = <<BasePath>> \o sys_path
    /\ UNCHANGED <<env, report, conns, console, saved, status, returned, phase,
                   recorded, failure>>

sqlite_connect ==
    /\ Perform("connect")
    /\ conns' = conns \cup {Head(pending).db}
    /\ UNCHANGED <<env, report, sys_path, console, saved, status, returned, phase,
                   recorded, failure>>

sqlite_close ==
    /\ Perform("close")
    /\ conns' = conns \ {Head(pending).db}
    /\ UNCHANGED <<env, report, sys_path, console, saved, status, returned, phase,
                   recorded, failure>>

\* position of a database file in the order rglob gives the files
DbIndex(path) == CHOOSE i \in 1..Len(env.dbs) : env.dbs[i].path = path

\* the effects of the loop of line 219 from file number k on
StepsFrom(k) ==
    Flatten([i \in 1..(Len(env.dbs) - k + 1) |-> DbFileSteps(env.dbs[k + i - 1])])

\* conn and cursor of lines 221-222 name a later connection: a later file's
\* connect succeeded
Rebound(path) ==
    \E k \in (DbIndex(path) + 1)..Len(env.dbs) :
        /\ env.dbs[k].outcome # "connect_fail"
        /\ Len(pending) < Len(StepsFrom(k))

\* no local variable of analyze_database names the connection any more
Unreferenced(path) ==
    \/ phase > Index("analyze_database")
    \/ /\ phase = Index("analyze_database")
       /\ pending = <<>> \/ Rebound(path)

\* the interpreter finalizes a connection the handler of lines 243-249 left
\* open: no statement of the check closes it, the garbage collector does,
\* at a moment of its own choosing once nothing names the connection
garbage_collect ==
    /\ status = "running"
    /\ \E path \in conns :
          /\ Unreferenced(path)
          /\ conns' = conns \ {path}
    /\ UNCHANGED <<env, report, sys_path, console, saved, status, returned, phase,
                   pending, recorded, failure>>

set_solutions ==
    /\ Perform("solutions")
    /\ report' = [solutions |-> GenerateSolutions(report)] @@ report
    /\ UNCHANGED <<env, sys_path, conns, console, saved, status, returned, phase,
                   recorded, failure>>

print_summary ==
    /\ Perform("print_summary")
    /\ console' = Append(console,
                         [kind |-> "summary",
                          issues |-> Len(report.issues),
                          warnings |-> Len(report.warnings),
                          info |-> Len(report.info),
                          solutions |-> Len(report.solutions)])
    /\ UNCHANGED <<env, report, sys_path, conns, saved, status, returned, phase,
                   recorded, failure>>

\* lines 474-480
save_report ==
    /\ Perform("save")
    /\ IF env.save_ok
       THEN /\ saved' = report
            /\ console' = Append(console, [kind |-> "saved"])
       ELSE /\ saved' = saved
            /\ console' = Append(console, [kind |-> "save_failed"])
    /\ UNCHANGED <<env, report, sys_path, conns, status, returned, phase,
                   recorded, failure>>

\* line 483 and line 502
return_report ==
    /\ Perform("return")
    /\ returned' = report
    /\ status' = "returned"
    /\ UNCHANGED <<env, report, sys_path, conns, console, saved, phase,
                   recorded, failure>>

NoReport == [none |-> TRUE]

ReturnedOnFailure_Fresh(rep) == InitReport

\* lines 506 and 510: return self.report
ReturnedOnFailure(rep) == rep

\* the except clauses of lines 504-510; a SystemExit matches neither
Handle(kind) ==
    /\ failure' = kind
    /\ IF kind \in {"exception", "interrupt"}
       THEN /\ console' = Append(console,
                                  [kind |-> IF kind = "interrupt" THEN "interrupted"
                                                                 ELSE "unexpected_error"])
            /\ returned' = ReturnedOnFailure(report)
            /\ status' = "returned"
       ELSE /\ status' = "propagated"
            /\ UNCHANGED <<console, returned>>
    /\ UNCHANGED <<env, report, sys_path, conns, saved, phase, pending, recorded>>

\* an exception no check catches
raise ==
    /\ status = "running"
    /\ pending # <<>>
    /\ Head(pending).op = "raise"
    /\ Handle(Head(pending).kind)

\* a KeyboardInterrupt delivered between two effects of the run
keyboard_interrupt ==
    /\ status = "running"
    /\ Handle("interrupt")

\* a KeyboardInterrupt delivered inside the try block of lines 340-346
interrupt_swallowed ==
    /\ Perform("guarded_log")
    /\ UNCHANGED <<env, report, sys_path, conns, console, saved, status, returned,
                   phase, recorded, failure>>

(***************************************************************************)
(* The inspected environments.                                             *)
(***************************************************************************)
SeqsUpTo(S, n) == UNION {[1..k -> S] : k \in 0..n}

\* app.py as text, by what it contains
AppContent(flask, debug, secret, routes) ==
    When(flask, <<"from flask import", " Flask", "\n">>)
    \o When(secret, <<"app.config['", "SECRET_KEY", "'] = 'dev'", "\n">>)
    \o [i \in 1..routes |-> "@app.route"]
    \o When(debug, <<"app.run(", "debug=True", ")">>)

AppContents ==
    {AppContent(f, d, s, r) : f \in BOOLEAN, d \in BOOLEAN, s \in BOOLEAN, r \in 0..MaxRoutes}

FlaskConfig ==
    [secret_key_configured |-> TRUE, database_uri |-> "Not configured",
     debug |-> FALSE, registered_routes |-> "n", blueprints |-> <<>>]

LoadErrors == { <<"No module named 'flask_login'">>, <<"'", "SECRET_KEY", "'">> }

\* str(e) of reading app.config when app.py says app = "a string"
AppErrors == { <<"'str' object has no attribute 'config'">> }

Loads ==
    {[load |-> l, load_error |-> <<>>] : l \in {"app", "no_app", "system_exit"}}
    \cup {[load |-> l, load_error |-> e] :
            l \in {"import_error", "exec_error", "outer_error"}, e \in LoadErrors}
    \cup {[load |-> "bad_app", load_error |-> e] : e \in AppErrors}

LineFlask == <<"flask", "==", "2.0.0">>
ReqLines ==
    { LineFlask,
      <<"Flask", "-Login", ">=", "0.5">>,
      <<"#", " pinned versions">>,
      <<>>,
      <<"nonexistentpkg123">>,
      <<"app.py">> }

StdoutFlask == <<"Package", " Version", "\n", "Flask", " 2.0.0", "\n">>
StdoutLogin == <<"Package", " Version", "\n", "Flask", "-Login", " 0.6.2", "\n">>

Pips ==
    {[pip |-> "ok", pip_stdout |-> StdoutFlask],
     [pip |-> "ok", pip_stdout |-> StdoutLogin],
     [pip |-> "nonzero_exit", pip_stdout |-> <<>>],
     [pip |-> "cannot_start", pip_stdout |-> <<>>]}

DbPaths == <<"instance/portal.db", "portal.db", "backup/old.db", "data.db">>
DbNames == <<"portal.db", "portal.db", "old.db", "data.db">>
DbKinds == {"ok_empty", "ok_tables", "connect_fail", "list_fail", "count_fail"}

DbFile(i, kind) ==
    [ path |-> DbPaths[i], name |-> DbNames[i],
      outcome |-> IF kind \in {"ok_empty", "ok_tables"} THEN "ok" ELSE kind,
      tables |-> IF kind \in {"ok_tables", "count_fail"}
                 THEN [users |-> 3, courses |-> 0] ELSE EmptyMap ]

DbSets == {[i \in 1..Len(ks) |-> DbFile(i, ks[i])] : ks \in SeqsUpTo(DbKinds, MaxDbFiles)}

TemplatePaths ==
    <<"templates/base.html", "templates/index.html", "templates/auth/login.html",
      "templates/auth/base.html">>
TemplateNames == <<"base.html", "index.html", "login.html", "base.html">>
TemplateKinds == {"expr", "stmt", "plain", "unreadable"}

TemplateFile(i, kind) ==
    [ path |-> TemplatePaths[i], name |-> TemplateNames[i],
      readable |-> kind # "unreadable",
      content |-> CASE kind = "expr" -> <<"<h1>", "{{", " name ", "}}", "</h1>">>
                    [] kind = "stmt" -> <<"{%", " extends 'layout.html' ", "%}">>
                    [] OTHER -> <<"<p>static page</p>">> ]

TemplateSets ==
    {[i \in 1..Len(ks) |-> TemplateFile(i, ks[i])] : ks \in SeqsUpTo(TemplateKinds, MaxTemplates)}

WsgiContents ==
    { <<"from app ", "import app", "\n", "application = app">>,
      <<"import app", "\n">>,
      <<"from portal import create_app", "\n">> }

ImportantNames == {ImportantPaths[i].name : i \in 1..Len(ImportantPaths)}
Modes == [ImportantNames -> [r : BOOLEAN, w : BOOLEAN]]

FaultSites == {"walk", "db_scan", "template_scan", "static_scan", "perm_stat"}

\* a complete, healthy project
Healthy ==
    [ exists |-> [p \in ExpectedPaths |-> TRUE],
      app_readable |-> TRUE,
      app_content |-> AppContent(TRUE, FALSE, TRUE, 1),
      load |-> "app",
      load_error |-> <<>>,
      flask_config |-> FlaskConfig,
      req_readable |-> TRUE,
      req_lines |-> <<LineFlask>>,
      pip |-> "ok",
      pip_stdout |-> StdoutFlask,
      dbs |-> <<>>,
      templates |-> <<TemplateFile(1, "expr")>>,
      static |-> [css |-> <<"static/style.css">>, js |-> <<>>, img |-> <<>>],
      wsgi_readable |-> TRUE,
      wsgi_content |-> <<"from app ", "import app", "\n", "application = app">>,
      cloudflared |-> FALSE,
      cpuinfo |-> "other",
      mode |-> [n \in ImportantNames |-> [r |-> TRUE, w |-> TRUE]],
      fault |-> "none",
      save_ok |-> TRUE ]

\* the healthy project with one area of it varied
EnvConfig ==
    {[Healthy EXCEPT !.app_content = c, !.load = l.load, !.load_error = l.load_error] :
        c \in AppContents, l \in Loads}
    \cup {[Healthy EXCEPT !.app_readable = FALSE]}

EnvDeps ==
    {[Healthy EXCEPT !.req_lines = r, !.pip = p.pip, !.pip_stdout = p.pip_stdout] :
        r \in SeqsUpTo(ReqLines, MaxReqLines) \ {<<>>}, p \in Pips}
    \cup {[Healthy EXCEPT !.req_readable = FALSE]}

EnvDatabase == {[Healthy EXCEPT !.dbs = d] : d \in DbSets}

EnvTemplates == {[Healthy EXCEPT !.templates = t] : t \in TemplateSets}

EnvLayout ==
    {[Healthy EXCEPT !.exists = x, !.dbs = d] :
        x \in [ExpectedPaths -> BOOLEAN],
        d \in {<<>>, <<DbFile(1, "list_fail")>>}}

EnvServer ==
    {[Healthy EXCEPT !.wsgi_readable = r, !.wsgi_content = w, !.cloudflared = c,
                     !.cpuinfo = u] :
        r \in BOOLEAN, w \in WsgiContents, c \in BOOLEAN,
        u \in {"other", "raspberry", "unreadable"}}

EnvPermissions == {[Healthy EXCEPT !.mode = m] : m \in Modes}

EnvFaults ==
    {[Healthy EXCEPT !.fault = f, !.save_ok = s, !.exists["app.py"] = a,
                     !.dbs = d] :
        f \in FaultSites \cup {"none"}, s \in BOOLEAN, a \in BOOLEAN,
        d \in {<<>>, <<DbFile(1, "ok_tables"), DbFile(2, "count_fail")>>}}

\* a project with trouble in several areas at once
EnvTroubled ==
    {[Healthy EXCEPT !.exists["app.py"] = a, !.exists["templates/"] = t,
                     !.req_lines = r, !.pip_stdout = StdoutLogin,
                     !.mode["app.py"].r = m] :
        a \in BOOLEAN, t \in BOOLEAN, m \in BOOLEAN,
        r \in {<<LineFlask>>, <<<<"app.py">>>>, <<<<"nonexistentpkg123">>, <<"app.py">>>>}}

Environments ==
    EnvConfig \cup EnvDeps \cup EnvDatabase \cup EnvTemplates \cup EnvLayout
    \cup EnvServer \cup EnvPermissions \cup EnvFaults \cup EnvTroubled

InitSysPath == <<"/usr/lib/python3">>

\* __init__ (lines 18-31), in a fresh process
Init ==
    /\ env \in Environments
    /\ report = InitReport
    /\ sys_path = InitSysPath
    /\ conns = {}
    /\ console = <<>>
    /\ saved = NoReport
    /\ status = "running"
    /\ returned = NoReport
    /\ phase = 0
    /\ pending = <<>>
    /\ recorded = <<>>
    /\ failure = "none"

Next ==
    \/ analyze_file_structure
    \/ analyze_app_py
    \/ analyze_requirements
    \/ analyze_database
    \/ analyze_templates
    \/ analyze_static_files
    \/ check_server_configuration
    \/ check_permissions
    \/ generate_solutions
    \/ generate_report
    \/ log_issue
    \/ log_issue_guarded
    \/ write_fact
    \/ sys_path_insert
    \/ sqlite_connect
    \/ sqlite_close
    \/ garbage_collect
    \/ set_solutions
    \/ print_summary
    \/ save_report
    \/ return_report
    \/ raise
    \/ keyboard_interrupt
    \/ interrupt_swallowed

Spec == Init /\ [][Next]_vars

(***************************************************************************)
(* generate_solutions on its own: reports as the eight checks leave them,  *)
(* with up to MaxIssues error findings.                                    *)
(***************************************************************************)
\* error findings the checks can record, in the order the checks record them
PossibleIssues ==
    << Finding("app_config", MsgAppNotFound, "error"),
       Finding("app_config", MsgNoFlaskImports, "error"),
       Finding("app_config", MsgNoSecretKey, "error"),
       Finding("app_config", MsgExecError(<<"'", "SECRET_KEY", "'">>), "error"),
       Finding("dependencies", MsgMissingPackages(<< <<"nonexistentpkg123">> >>), "error"),
       Finding("dependencies",
               MsgMissingPackages(<< <<"Flask", "-Login">>, <<"app.py">> >>), "error"),
       Finding("database", MsgDbError("portal.db", DbErrorText("list_fail")), "error"),
       Finding("templates", MsgNoTemplatesDir, "error"),
       Finding("server", MsgWsgiNoImport, "error"),
       Finding("permissions", MsgNotReadable("app.py"), "error") >>

\* findings of one run: app.py is absent or present, one dependency finding
Compatible(S) ==
    /\ Cardinality(S) <= MaxIssues
    /\ 1 \in S => S \cap {2, 3, 4, 10} = {}
    /\ ~({5, 6} \subseteq S)

RECURSIVE Pick(_, _, _)
Pick(findings, S, i) ==
    IF i > Len(findings) THEN <<>>
    ELSE When(i \in S, <<findings[i]>>) \o Pick(findings, S, i + 1)

PossibleWarnings ==
    << Finding("file_structure", MsgMissingExpected(ExpectedFiles[1]), "warning"),
       Finding("app_config", MsgDebugMode, "warning"),
       Finding("dependencies", MsgNoRequirements, "warning") >>

InitSolutions ==
    /\ env = Healthy
    /\ \E S \in SUBSET (1..Len(PossibleIssues)), W \in SUBSET (1..Len(PossibleWarnings)) :
        /\ Compatible(S)
        /\ (1 \in S) = (1 \in W)
        /\ (2 \in W) => (1 \notin S)
        /\ (3 \in W) => ~(S \cap {5, 6} # {})
        /\ report = [InitReport EXCEPT !.issues = Pick(PossibleIssues, S, 1),
                                       !.warnings = Pick(PossibleWarnings, W, 1)]
        /\ recorded = Pick(PossibleWarnings, W, 1) \o Pick(PossibleIssues, S, 1)
    /\ sys_path = InitSysPath
    /\ conns = {}
    /\ console = <<>>
    /\ saved = NoReport
    /\ status = "running"
    /\ returned = NoReport
    /\ phase = Index("check_permissions")
    /\ pending = <<>>
    /\ failure = "none"

NextSolutions == generate_solutions \/ set_solutions

SpecSolutions == InitSolutions /\ [][NextSolutions]_vars

(***************************************************************************)
(* Properties.                                                             *)
(***************************************************************************)
OfSeverity(findings, severity) ==
    LET Test(f) == f.severity = severity IN SelectSeq(findings, Test)

OfCategory(findings, category) ==
    LET Test(f) == f.category = category IN SelectSeq(findings, Test)

Printed(kind) == \E i \in 1..Len(console) : console[i].kind = kind

C2_SummaryAndSaveOnEveryRun ==
    (status = "returned" /\ failure \in {"none", "exception"}) =>
        /\ Printed("summary")
        /\ Printed("saved") \/ Printed("save_failed")

\* C3: each log_issue call appends one Finding to the one sequence of its
\* severity and leaves the other two sequences and all earlier Findings as
\* they were; so the three sequences together hold as many Findings as calls
\* were made, and no Finding is in two sequences.
C3_State ==
    /\ Len(report.issues) + Len(report.warnings) + Len(report.info) = Len(recorded)
    /\ Range(report.issues) \cap Range(report.warnings) = {}
    /\ Range(report.issues) \cap Range(report.info) = {}
    /\ Range(report.warnings) \cap Range(report.info) = {}

C3_Step ==
    IF recorded' # recorded
    THEN LET f == recorded'[Len(recorded')] IN
         /\ recorded' = Append(recorded, f)
         /\ f.severity \in {"error", "warning", "info"}
         /\ report'.issues =
               IF f.severity = "error" THEN Append(report.issues, f) ELSE report.issues
         /\ report'.warnings =
               IF f.severity = "warning" THEN Append(report.warnings, f)
               ELSE report.warnings
         /\ report'.info =
               IF f.severity = "info" THEN Append(report.info, f) ELSE report.info
    ELSE /\ report'.issues = report.issues
         /\ report'.warnings = report.warnings
         /\ report'.info = report.info

C3_OneAppendPerCall == [](C3_State) /\ [][C3_Step]_vars

C3_Witness ==
    /\ Len(report.issues) >= 2
    /\ Len(report.warnings) >= 2
    /\ Len(report.info) >= 2

\* C4: with app.py absent, once analyze_file_structure and analyze_app_py
\* have run, the file_structure warning for app.py is recorded, the only
\* Finding of the configuration check is one app_config error, and no
\* configuration analysis was done: no app_py facts, no dynamic load.
C4_AbsentEntryFile ==
    (/\ ~Exists("app.py")
     /\ Completed(Index("analyze_file_structure"))
     /\ Completed(Index("analyze_app_py"))) =>
        /\ Finding("file_structure", MsgMissingExpected(ExpectedFiles[1]), "warning")
               \in Range(report.warnings)
        /\ Len(OfCategory(recorded, "app_config")) = 1
        /\ OfCategory(report.issues, "app_config")
               = << Finding("app_config", MsgAppNotFound, "error") >>
        /\ "app_py" \notin DOMAIN report.configurations
        /\ "flask_config" \notin DOMAIN report.configurations
        /\ sys_path = InitSysPath

C4_Witness ==
    /\ ~Exists("app.py")
    /\ Completed(Index("analyze_app_py"))
    /\ OfCategory(report.issues, "app_config") # <<>>

\* C5: a report whose only error Finding is "Missing packages: <names>", for
\* any non-empty list of names, gets exactly one Solution, and its command is
\* "pip install -r requirements.txt" whatever the names are.
C5_MissingPackagesSolution ==
    (/\ "solutions" \in DOMAIN report
     /\ "missing_packages" \in DOMAIN report.dependencies
     /\ report.dependencies["missing_packages"] # <<>>
     /\ Len(report.issues) = 1
     /\ report.issues[1].message
            = MsgMissingPackages(report.dependencies["missing_packages"])) =>
        /\ Len(report.solutions) = 1
        /\ "command" \in DOMAIN report.solutions[1]
        /\ report.solutions[1].command = CmdPipInstall

\* C6: in a full run on a project without app.py, the error Finding the
\* configuration check records for it matches the first predicate of the
\* solution deriver, so solutions holds exactly one Solution for it, built
\* from the entry-file template.
C6_EntryFileSolution ==
    (/\ ~Exists("app.py")
     /\ status = "returned"
     /\ failure = "none") =>
        LET Test(sol) == sol.issue = MsgAppNotFound IN
        SelectSeq(report.solutions, Test) = << SolutionCreateApp(MsgAppNotFound) >>

\* C7: after generate_solutions, solutions is what a scan of the error
\* Findings in recorded order gives under first-match-wins over the four
\* ordered predicates: one Solution per error Finding that matches a
\* predicate, built for the first predicate it matches, carrying the
\* Finding's message as its issue, in the order of the Findings; warnings
\* and info produce none; so len(solutions) <= len(issues).
Mentions(token, message) == token \in Range(message)

Predicate(p, message) ==
    CASE p = 1 -> Mentions("Missing", message) /\ Mentions("app.py", message)
      [] p = 2 -> Mentions("SECRET_KEY", message)
      [] p = 3 -> \E i \in 1..(Len(message) - 1) :
                      message[i] = "Missing" /\ message[i + 1] = " packages"
      [] p = 4 -> Mentions("Templates directory not found", message)

Matching(message) == {p \in 1..4 : Predicate(p, message)}

FirstMatch(message) ==
    CHOOSE p \in Matching(message) : \A q \in Matching(message) : p <= q

RemedyOf(p) ==
    CASE p = 1 -> "Create app.py file with basic Flask application structure"
      [] p = 2 -> "Add SECRET_KEY to your Flask configuration"
      [] p = 3 -> "Install missing packages using pip"
      [] p = 4 -> "Create templates directory and basic templates"

C7_FirstMatchOverErrors ==
    "solutions" \in DOMAIN report =>
        LET Matched(f) == Matching(f.message) # {}
            matched == SelectSeq(report.issues, Matched)
        IN /\ Len(report.solutions) = Len(matched)
           /\ \A i \in 1..Len(matched) :
                /\ report.solutions[i].issue = matched[i].message
                /\ report.solutions[i].solution = RemedyOf(FirstMatch(matched[i].message))
           /\ Len(report.solutions) <= Len(report.issues)

C7_Witness ==
    /\ "solutions" \in DOMAIN report
    /\ Len(report.issues) = 3
    /\ Len(report.solutions) = 1
    /\ Cardinality(Matching(report.solutions[1].issue)) = 2
    /\ \E i \in 1..Len(report.warnings) : Matching(report.warnings[i].message) # {}

\* C8: the database check processes every database file whatever happens on
\* the others: afterwards each file has one database_status entry and one
\* Finding, accessible with its table counts and an info Finding when it was
\* opened and counted, inaccessible with an error message and an error
\* Finding otherwise.
C8_EveryDatabaseProcessed ==
    (Completed(Index("analyze_database")) /\ env.fault # "db_scan") =>
        LET found == OfCategory(recorded, "database") IN
        /\ DOMAIN report.database_status = {env.dbs[i].path : i \in 1..Len(env.dbs)}
        /\ Len(found) = Len(env.dbs)
        /\ \A i \in 1..Len(env.dbs) :
            LET db == env.dbs[i]
                entry == report.database_status[db.path]
            IN IF db.outcome = "ok"
               THEN /\ entry = [type |-> "SQLite", accessible |-> TRUE,
                                tables |-> db.tables]
                    /\ found[i].severity = "info"
                    /\ Mentions(db.name, found[i].message)
               ELSE /\ entry.accessible = FALSE
                    /\ DOMAIN entry = {"type", "accessible", "error"}
                    /\ found[i].severity = "error"
                    /\ Mentions(db.name, found[i].message)

C8_Witness ==
    /\ Completed(Index("analyze_database"))
    /\ Len(env.dbs) = 2
    /\ env.dbs[1].outcome = "count_fail"
    /\ env.dbs[2].outcome = "ok"
    /\ report.database_status[env.dbs[2].path].tables = [users |-> 3, courses |-> 0]
    /\ ~report.database_status[env.dbs[1].path].accessible

\* C9: with the templates directory present and holding n template files,
\* template_count is n and, when n > 0, the template check records one
\* warning Finding per file that has neither '{{' nor '{%' and one per file
\* whose read fails, in file order, going on to the files after it; so a
\* '{{ name }}' file and a marker-less file give template_count 2 and one
\* warning, for the second file.
HasMarker(content) == Mentions("{{", content) \/ Mentions("{%", content)

C9_TemplateWarnings ==
    (/\ Exists("templates/")
     /\ env.fault # "template_scan"
     /\ Completed(Index("analyze_templates"))) =>
        LET n == Len(env.templates)
            Flagged(t) == ~t.readable \/ ~HasMarker(t.content)
            flagged == SelectSeq(env.templates, Flagged)
            warned == OfCategory(report.warnings, "templates")
        IN /\ report.configurations["templates"].template_count = n
           /\ n > 0 =>
                /\ Len(warned) = Len(flagged)
                /\ \A i \in 1..Len(flagged) :
                     warned[i].message =
                        IF flagged[i].readable
                        THEN MsgNotATemplate(flagged[i].name)
                        ELSE MsgTemplateReadError(flagged[i].name, ErrDecode)

C9_Witness ==
    /\ Completed(Index("analyze_templates"))
    /\ Len(env.templates) = 2
    /\ Mentions("{{", env.templates[1].content)
    /\ env.templates[2].readable
    /\ ~HasMarker(env.templates[2].content)
    /\ report.configurations["templates"].template_count = 2
    /\ OfCategory(report.warnings, "templates")
           = << Finding("templates", MsgNotATemplate(env.templates[2].name), "warning") >>

\* C10: analyze_app_imports leaves sys.path as it found it on every exit
\* path, so after the configuration check the base directory is not left
\* registered in it.
C10_SysPathRestored ==
    Completed(Index("analyze_app_py")) => sys_path = InitSysPath

\* the Findings analyze_app_imports recorded, told from those of
\* analyze_app_py by the text their message starts with
ImportHeads ==
    { Head(MsgImportedApp), Head(MsgNoAppInstance), Head(MsgImportError(<<>>)),
      Head(MsgExecError(<<>>)), Head(MsgImportsNotAnalyzed(<<>>)) }

ImportFindings ==
    LET Test(f) == f.category = "app_config" /\ Head(f.message) \in ImportHeads
    IN SelectSeq(recorded, Test)

\* the attempt began (the base directory went into sys.path) and is over:
\* the configuration check ran to its end, or what the load raised left it
ImportAttemptOver ==
    /\ sys_path # InitSysPath
    /\ Completed(Index("analyze_app_py")) \/ failure = "system_exit"

\* C11: every attempt of analyze_app_imports records exactly one Finding and
\* lets no failure out: info when the load succeeds and the module has an
\* app attribute, error when it succeeds without one, error carrying the
\* error's message when the load raises, warning when anything else in the
\* attempt raises; no attempt records zero Findings or more than one.
C11_OneFindingPerAttempt ==
    ImportAttemptOver =>
        /\ status # "propagated"
        /\ Len(ImportFindings) = 1
        /\ LET f == ImportFindings[1] IN
           CASE env.load \in {"app", "bad_app"} -> f.severity = "info"
             [] env.load = "no_app" -> f.severity = "error"
             [] env.load \in {"import_error", "exec_error", "system_exit"} ->
                    /\ f.severity = "error"
                    /\ \E i \in 1..Len(f.message) :
                          SubSeq(f.message, i, Len(f.message)) = env.load_error
             [] env.load = "outer_error" -> f.severity = "warning"

\* the pip list command did not give a package listing: it could not be
\* started, or it ran, exited non-zero and wrote nothing to stdout
PipListFailed == env.pip \in {"cannot_start", "nonzero_exit"}

\* C12: when the dependency check has read requirements.txt and pip list
\* fails, the check records exactly one warning Finding and skips the
\* detection of missing packages: the report gets no missing_packages entry
\* and no "Missing packages" error Finding.
C12_PipFailureSkipsDetection ==
    ( /\ Completed(Index("analyze_requirements"))
      /\ Exists("requirements.txt")
      /\ env.req_readable
      /\ PipListFailed )
    => /\ Len(OfCategory(report.warnings, "dependencies")) = 1
       /\ "missing_packages" \notin DOMAIN report.dependencies
       /\ \A i \in 1..Len(report.issues) :
             report.issues[i].category = "dependencies"
                => ~Mentions("Missing", report.issues[i].message)

\* the loop of the database check is about to start on file number k
AtDbFile(k) == phase = Index("analyze_database") /\ pending = StepsFrom(k)

\* C13: the database check holds a connection for at most one database file
\* at a time: a connection it opened is released before the check goes on to
\* the next file and before the check returns, whether the inspection of the
\* file succeeded or failed after the connect; none is open after the check.
C13_ConnectionReleasedPerFile ==
    /\ Cardinality(conns) <= 1
    /\ \A k \in 1..Len(env.dbs) : AtDbFile(k) => conns = {}
    /\ Completed(Index("analyze_database")) => conns = {}

====
